---- MODULE Spec2Model ----
(***************************************************************************)
(* A model of diversity_sampling.py: the rank query get_rank, the          *)
(* representativeness scorers get_representative_samples and               *)
(* get_adaptive_representative_samples, the model-based outlier detector   *)
(* get_model_outliers, the clustering loop of get_cluster_samples, the     *)
(* random sampler get_random_items, the annotation loop get_annotations    *)
(* and one run of the script that calls them.                              *)
(*                                                                         *)
(* Python lists are sequences (Python index i is TLA+ index i + 1).        *)
(* Floats are exact rationals: a rank or score is a pair <<num, den>> with *)
(* den > 0, compared by cross multiplication.  An item                     *)
(* [ID, TEXT, LABEL, SAMPLING_STRATEGY, CONFIDENCE] is a record            *)
(* [id, text, strategy, score]; text stands for what the external          *)
(* vectorizer or classifier derives from the item's text.                  *)
(***************************************************************************)
EXTENDS Integers, Sequences, FiniteSets, TLC

VARIABLES
    pc,               \* position of the call in progress
    value,            \* get_rank: argument value
    rankings,         \* get_rank: argument rankings
    rank,             \* get_rank: what the call returned or raised
    already_labeled,  \* module global already_labeled (the set of its keys)
    training_data,    \* module global training_data (feature vectors)
    unlabeled_data,   \* module global data, the caller's unlabeled list
    validation_data,  \* validation items (logits of the model per item)
    call,             \* arguments of the sampling call in progress
    local,            \* the callee's local list at its return
    ret,              \* list returned (samples accumulated, for adaptive)
    raised,           \* exception that left the call, or "none"
    epoch,            \* loop variable i (get_cluster_samples, adaptive sampler)
    moved,            \* get_cluster_samples: moved counts of the epochs run
    labels,           \* item[2] (LABEL) of the items of data, by item id
    ann,              \* get_annotations: ind, and what was prompted and typed
    script            \* <module>: block reached, counts loaded, rows appended

vars == <<pc, value, rankings, rank, already_labeled, training_data,
          unlabeled_data, validation_data, call, local, ret, raised,
          epoch, moved, labels, ann, script>>

----------------------------------------------------------------------------
(* Bounds of the model *)

MaxLen == 3
MaxVal == 6

Values == 0..MaxVal

RECURSIVE SeqsUpTo(_, _)
SeqsUpTo(S, n) ==
    IF n = 0 THEN {<<>>}
    ELSE LET shorter == SeqsUpTo(S, n - 1)
         IN shorter \cup {Append(s, x) : s \in {t \in shorter : Len(t) = n - 1}, x \in S}

IsSorted(s) == \A i \in 1..(Len(s) - 1) : s[i] <= s[i + 1]

Min(a, b) == IF a <= b THEN a ELSE b
Max(a, b) == IF a >= b THEN a ELSE b

\* the orders in which n entries can be left
Bijections(n) ==
    {q \in [1..n -> 1..n] : \A i, j \in 1..n : q[i] = q[j] => i = j}

----------------------------------------------------------------------------
(* Rationals as pairs <<num, den>>, den > 0 *)

RLe(a, b) == a[1] * b[2] <= b[1] * a[2]
RLt(a, b) == a[1] * b[2] < b[1] * a[2]
REq(a, b) == a[1] * b[2] = b[1] * a[2]
RSub(a, b) == <<a[1] * b[2] - b[1] * a[2], a[2] * b[2]>>
RAdd(a, b) == <<a[1] * b[2] + b[1] * a[2], a[2] * b[2]>>

----------------------------------------------------------------------------
(* get_rank *)

\* The scan started one entry late: index counts one more than the leading
\* entries that are <= value.
RECURSIVE ScanIndexOffByOne(_, _, _)
ScanIndexOffByOne(v, rs, index) ==
    IF index >= Len(rs) THEN index + 1
    ELSE IF v < rs[index + 1] THEN index + 1
    ELSE ScanIndexOffByOne(v, rs, index + 1)

\* The scan breaking on value <= ranked_number.
RECURSIVE ScanIndexLeft(_, _, _)
ScanIndexLeft(v, rs, index) ==
    IF index >= Len(rs) THEN index
    ELSE IF v <= rs[index + 1] THEN index
    ELSE ScanIndexLeft(v, rs, index + 1)

\* for ranked_number in rankings: if value < ranked_number: break; index += 1
RECURSIVE ScanIndex(_, _, _)
ScanIndex(v, rs, index) ==
    IF index >= Len(rs) THEN index
    ELSE IF v < rs[index + 1] THEN index
    ELSE ScanIndex(v, rs, index + 1)

Returned(branch, index, num, den) ==
    [raised |-> "none", branch |-> branch, index |-> index, num |-> num, den |-> den]

Raised(branch, index, exc) ==
    [raised |-> exc, branch |-> branch, index |-> index, num |-> 0, den |-> 1]

\* index / len(rankings): Python raises ZeroDivisionError on a zero divisor
Divide(branch, index, num, den, by) ==
    IF by = 0 THEN Raised(branch, index, "ZeroDivisionError")
    ELSE Returned(branch, index, num, den * by)

\* The interpolation measuring value from the upper neighbour:
\* perc = rankings[index] - value.
get_rank_from_upper(v, rs) ==
    LET n == Len(rs)
        index == ScanIndex(v, rs, 0)
    IN  IF index >= n
        THEN Divide("max", n, n, 1, n)
        ELSE IF index > 0
        THEN LET diff == rs[index + 1] - rs[index]
                 perc == rs[index + 1] - v
             IN  IF diff = 0
                 THEN Raised("interp", index, "ZeroDivisionError")
                 ELSE Divide("interp", index, (index - 1) * diff + perc, diff, n)
        ELSE Divide("zero", 0, 0, 1, n)

get_rank(v, rs) ==
    LET n == Len(rs)
        index == ScanIndex(v, rs, 0)
    IN  IF index >= n
        THEN Divide("max", n, n, 1, n)
        ELSE IF index > 0
        THEN LET diff == rs[index + 1] - rs[index]
                 perc == v - rs[index]
             IN  IF diff = 0
                 THEN Raised("interp", index, "ZeroDivisionError")
                 \* (index - 1) + perc / diff, then / len(rankings)
                 ELSE Divide("interp", index, (index - 1) * diff + perc, diff, n)
        ELSE Divide("zero", 0, 0, 1, n)

NoRank == Raised("none", 0, "none")

----------------------------------------------------------------------------
(* The rank query on its own: every sorted list and value within the bounds *)

NoScript ==
    /\ labels = <<>>
    /\ ann = [ind |-> 0]
    /\ script = [block |-> "none"]

Idle ==
    /\ NoScript
    /\ already_labeled = {}
    /\ training_data = <<>>
    /\ unlabeled_data = <<>>
    /\ validation_data = <<>>
    /\ call = [op |-> "none"]
    /\ local = <<>>
    /\ ret = <<>>
    /\ raised = "none"
    /\ epoch = 0
    /\ moved = <<>>

InitRank ==
    /\ pc = "rank_start"
    /\ rankings \in {s \in SeqsUpTo(Values, MaxLen) : IsSorted(s)}
    /\ value \in Values
    /\ rank = NoRank
    /\ Idle

CallGetRank ==
    /\ pc = "rank_start"
    /\ rank' = get_rank(value, rankings)
    /\ pc' = "rank_done"
    /\ UNCHANGED <<labels, ann, script,
                   value, rankings, already_labeled, training_data,
                   unlabeled_data, validation_data, call, local, ret, raised,
                   epoch, moved>>

NextRank == CallGetRank

SpecRank == InitRank /\ [][NextRank]_vars

----------------------------------------------------------------------------
(* Claims about get_rank *)

\* number of leading entries of rs that are <= v
LeadingLE(v, rs) ==
    Cardinality({i \in 1..Len(rs) : \A j \in 1..i : rs[j] <= v})

\* C1: for a non-empty ascending list, with idx the number of leading entries
\* <= value, get_rank returns 0 when idx = 0, 1 when idx = len(rankings), and
\* otherwise ((idx - 1) + (value - rankings[idx-1]) /
\* (rankings[idx] - rankings[idx-1])) / len(rankings); for [1, 3, 5] it
\* returns 0 for value 0, 1 for value 6 and 1/2 for value 4.
C1_RankFormula ==
    (pc = "rank_done" /\ Len(rankings) > 0) =>
        LET idx == LeadingLE(value, rankings)
            n == Len(rankings)
        IN  /\ rank.raised = "none"
            /\ idx = 0 => rank.num = 0
            /\ idx = n => rank.num = rank.den
            /\ (0 < idx /\ idx < n) =>
                   LET d == rankings[idx + 1] - rankings[idx]
                   IN  /\ d # 0
                       /\ rank.num * (d * n)
                            = ((idx - 1) * d + (value - rankings[idx])) * rank.den
            /\ (rankings = <<1, 3, 5>> /\ value = 0) => rank.num = 0
            /\ (rankings = <<1, 3, 5>> /\ value = 6) => rank.num = rank.den
            /\ (rankings = <<1, 3, 5>> /\ value = 4) => 2 * rank.num = rank.den

C1_Witness ==
    /\ pc = "rank_done"
    /\ rankings = <<1, 3, 5>>
    /\ value = 4
    /\ rank.branch = "interp"
    /\ 2 * rank.num = rank.den

\* C8: for a non-empty ascending list (repeated values included) get_rank
\* never divides by zero: in the interpolation branch the two neighbouring
\* entries differ, and otherwise the result is the boundary value 0 or 1.
C8_NoZeroDivision ==
    (pc = "rank_done" /\ Len(rankings) > 0) =>
        /\ rank.raised = "none"
        /\ rank.branch = "interp" =>
               /\ 0 < rank.index /\ rank.index < Len(rankings)
               /\ rankings[rank.index] # rankings[rank.index + 1]
        /\ rank.branch # "interp" => (rank.num = 0 \/ rank.num = rank.den)

C8_Witness ==
    /\ pc = "rank_done"
    /\ Len(rankings) = 3
    /\ rankings[1] = rankings[2]
    /\ rankings[2] < rankings[3]
    /\ value = rankings[1]
    /\ rank.branch = "interp"
    /\ rank.raised = "none"

\* C14: for a fixed non-empty ascending rankings, get_rank is monotonically
\* non-decreasing in value: the rank returned for value is <= the rank of
\* every v2 >= value (and >= the rank of every v1 <= value), across the jump
\* from the interpolation branch to 1 at the maximum entry and for lists with
\* repeated values.
C14_RankMonotone ==
    (pc = "rank_done" /\ Len(rankings) > 0) =>
        /\ rank.raised = "none"
        /\ \A v2 \in Values :
               LET other == get_rank(v2, rankings)
               IN  /\ other.raised = "none"
                   /\ value <= v2 => RLe(<<rank.num, rank.den>>, <<other.num, other.den>>)
                   /\ v2 <= value => RLe(<<other.num, other.den>>, <<rank.num, rank.den>>)

\* an interpolated rank in a list with a repeated value, below the rank 1 of
\* the maximum entry
C14_Witness ==
    /\ pc = "rank_done"
    /\ rank.raised = "none"
    /\ rank.branch = "interp"
    /\ \E i \in 1..(Len(rankings) - 1) : rankings[i] = rankings[i + 1]
    /\ \E v2 \in Values :
           /\ v2 = rankings[Len(rankings)]
           /\ value < v2
           /\ get_rank(v2, rankings).branch = "max"
           /\ RLt(<<rank.num, rank.den>>, <<1, 1>>)

----------------------------------------------------------------------------
(* Items, and the Cluster of pytorch_clusters the scorers use *)

MaxItems == 3
MaxTrain == 1
MaxLabeled == 1
MaxCount == 1
SimScale == 100
DefaultLimit == 10000

Ids == 1..MaxItems

\* feature vectors: counts of two features
FeatureVectors == {<<a, b>> : a \in 0..MaxCount, b \in 0..MaxCount}

Item(id, text) == [id |-> id, text |-> text, strategy |-> "", score |-> <<0, 1>>]

\* a list of items with ids 1..n in that order
ItemLists(texts, n) ==
    UNION {{[i \in 1..k |-> Item(i, f[i])] : f \in [1..k -> texts]} : k \in 0..n}

\* Cluster.add_to_cluster over a list of feature vectors: the centroid is the
\* feature-wise sum of the members
RECURSIVE Centroid(_)
Centroid(vs) ==
    IF vs = <<>> THEN <<0, 0>>
    ELSE LET c == Centroid(Tail(vs))
         IN  <<Head(vs)[1] + c[1], Head(vs)[2] + c[2]>>

Dot(a, b) == a[1] * b[1] + a[2] * b[2]

\* the integer part of the square root
ISqrt ==
    [x \in 0..(SimScale * SimScale) |->
        CHOOSE k \in 0..SimScale : k * k <= x /\ (k + 1) * (k + 1) > x]

\* Cluster.cosine_similary: the cosine of the angle between a vector and the
\* centroid, 0 when either is all-zero; in units of 1 / SimScale, rounded down
cosine_similary(v, centroid) ==
    LET d == Dot(v, centroid)
        nn == Dot(v, v) * Dot(centroid, centroid)
    IN  IF nn = 0 THEN 0
        ELSE ISqrt[(SimScale * SimScale * d * d) \div nn]

----------------------------------------------------------------------------
(* List operations of Python *)

\* s[:n:]
SliceTo(s, n) ==
    IF n >= 0 THEN SubSeq(s, 1, Min(n, Len(s)))
    ELSE SubSeq(s, 1, Max(0, Len(s) + n))

\* s with x put after every entry whose score is >= that of x
RECURSIVE InsertDesc(_, _)
InsertDesc(s, x) ==
    IF s = <<>> THEN <<x>>
    ELSE IF RLt(Head(s).score, x.score) THEN <<x>> \o s
    ELSE <<Head(s)>> \o InsertDesc(Tail(s), x)

RECURSIVE InsertAsc(_, _)
InsertAsc(s, x) ==
    IF s = <<>> THEN <<x>>
    ELSE IF RLt(x.score, Head(s).score) THEN <<x>> \o s
    ELSE <<Head(s)>> \o InsertAsc(Tail(s), x)

RECURSIVE SortAscFrom(_, _)
SortAscFrom(sorted, rest) ==
    IF rest = <<>> THEN sorted
    ELSE SortAscFrom(InsertAsc(sorted, Head(rest)), Tail(rest))

\* the sort without reverse=True
SortAscending(s) == SortAscFrom(<<>>, s)

\* a descending sort that puts x before the entries of equal score
RECURSIVE InsertDescFirst(_, _)
InsertDescFirst(s, x) ==
    IF s = <<>> THEN <<x>>
    ELSE IF RLe(Head(s).score, x.score) THEN <<x>> \o s
    ELSE <<Head(s)>> \o InsertDescFirst(Tail(s), x)

RECURSIVE SortUnstableFrom(_, _)
SortUnstableFrom(sorted, rest) ==
    IF rest = <<>> THEN sorted
    ELSE SortUnstableFrom(InsertDescFirst(sorted, Head(rest)), Tail(rest))

SortUnstable(s) == SortUnstableFrom(<<>>, s)

RECURSIVE SortDescFrom(_, _)
SortDescFrom(sorted, rest) ==
    IF rest = <<>> THEN sorted
    ELSE SortDescFrom(InsertDesc(sorted, Head(rest)), Tail(rest))

\* list.sort(reverse=True, key=lambda x: x[4]): descending by score, entries
\* of equal score keeping their order
SortByScore(s) == SortDescFrom(<<>>, s)

\* dropping the first entry whatever x is
RemoveHead(s, x) == Tail(s)

\* list.remove(x): s without its first entry equal to x
RECURSIVE Remove(_, _)
Remove(s, x) ==
    IF s = <<>> THEN <<>>
    ELSE IF Head(s) = x THEN Tail(s)
    ELSE <<Head(s)>> \o Remove(Tail(s), x)

Texts(s) == [i \in 1..Len(s) |-> s[i].text]
IdsOf(s) == {s[i].id : i \in 1..Len(s)}

----------------------------------------------------------------------------
(* get_representative_samples *)

\* representativeness = unlabeled_score - training_score
Representativeness(item, training, unlabeled) ==
    <<cosine_similary(item.text, Centroid(Texts(unlabeled)))
        - cosine_similary(item.text, Centroid(training)), SimScale>>

ScoreRepresentative(training, unlabeled) ==
    [i \in 1..Len(unlabeled) |->
        [unlabeled[i] EXCEPT !.strategy = "representative",
                             !.score = Representativeness(unlabeled[i], training, unlabeled)]]

\* One call, given what the two shuffles leave (tshuf, ushuf).  The items are
\* shared between the caller's list and the slice, so the caller's list sees
\* the strategy and score written to the sliced items; the sort is of the slice
\* when limit > 0 and of the caller's list itself otherwise.
RepresentativeSamples(tshuf, ushuf, number, limit) ==
    LET training == IF limit > 0 THEN SliceTo(tshuf, limit) ELSE tshuf
        target == IF limit > 0 THEN SliceTo(ushuf, limit) ELSE ushuf
        scored == ScoreRepresentative(training, target)
        sorted == SortByScore(scored)
    IN  [training |-> training,
         target |-> sorted,
         caller |-> IF limit > 0
                    THEN scored \o SubSeq(ushuf, Len(scored) + 1, Len(ushuf))
                    ELSE sorted,
         ret |-> SliceTo(sorted, number)]

Limits == {-1} \cup (1..(MaxItems - 1)) \cup {DefaultLimit}
Numbers == 0..MaxItems

Orders == [n \in 0..MaxItems |-> Bijections(n)]

\* what shuffle(s) can leave: the entries of s in any order; no shuffle is
\* done unless limit > 0
Shuffled(s, limit) ==
    IF limit > 0
    THEN {[i \in 1..Len(s) |-> s[q[i]]] : q \in Orders[Len(s)]}
    ELSE {s}

InitRep ==
    /\ NoScript
    /\ pc = "idle"
    /\ already_labeled \in SUBSET (1..MaxLabeled)
    /\ training_data \in SeqsUpTo(FeatureVectors, MaxTrain)
    /\ unlabeled_data \in ItemLists(FeatureVectors, MaxItems)
    /\ validation_data = <<>>
    /\ call = [op |-> "none"]
    /\ local = <<>>
    /\ ret = <<>>
    /\ raised = "none"
    /\ epoch = 0
    /\ moved = <<>>
    /\ value = 0
    /\ rankings = <<>>
    /\ rank = NoRank

GetRepresentativeSamples ==
    /\ pc = "idle"
    /\ \E number \in Numbers, limit \in Limits :
         \E tshuf \in Shuffled(training_data, limit),
            ushuf \in Shuffled(unlabeled_data, limit) :
            LET r == RepresentativeSamples(tshuf, ushuf, number, limit)
            IN  /\ call' = [op |-> "representative", number |-> number,
                            limit |-> limit, input |-> unlabeled_data]
                /\ training_data' = tshuf
                /\ unlabeled_data' = r.caller
                /\ local' = [training |-> r.training, target |-> r.target]
                /\ ret' = r.ret
    /\ pc' = "rep_done"
    /\ UNCHANGED <<labels, ann, script,
                   value, rankings, rank, already_labeled, validation_data,
                   raised, epoch, moved>>

----------------------------------------------------------------------------
(* get_adaptive_representative_samples *)

GetAdaptiveRepresentativeSamples ==
    /\ pc = "idle"
    /\ \E number \in Numbers, limit \in Limits :
         call' = [op |-> "adaptive", number |-> number, limit |-> limit,
                  input |-> unlabeled_data]
    /\ ret' = <<>>
    /\ epoch' = 0
    /\ pc' = "adaptive_loop"
    /\ UNCHANGED <<labels, ann, script,
                   value, rankings, rank, already_labeled, training_data,
                   unlabeled_data, validation_data, local, raised, moved>>

\* one iteration of for i in range(0, number) that finds an item
AdaptiveIteration ==
    /\ pc = "adaptive_loop"
    /\ epoch < call.number
    /\ \E tshuf \in Shuffled(training_data, call.limit),
          ushuf \in Shuffled(unlabeled_data, call.limit) :
          LET r == RepresentativeSamples(tshuf, ushuf, 1, call.limit)
          IN  /\ r.ret # <<>>
              /\ training_data' = tshuf
              /\ local' = [training |-> r.training, target |-> r.target]
              /\ ret' = Append(ret, r.ret[1])
              /\ unlabeled_data' = Remove(r.caller, r.ret[1])
    /\ epoch' = epoch + 1
    /\ UNCHANGED <<labels, ann, script,
                   pc, value, rankings, rank, already_labeled, validation_data,
                   call, raised, moved>>

\* get_representative_samples(...)[0] on an empty list: IndexError
AdaptiveIndexError ==
    /\ pc = "adaptive_loop"
    /\ epoch < call.number
    /\ unlabeled_data = <<>>
    /\ local' = [training |-> IF call.limit > 0
                              THEN SliceTo(training_data, call.limit)
                              ELSE training_data,
                 target |-> <<>>]
    /\ raised' = "IndexError"
    /\ pc' = "adaptive_raised"
    /\ UNCHANGED <<labels, ann, script,
                   value, rankings, rank, already_labeled, training_data,
                   unlabeled_data, validation_data, call, ret, epoch, moved>>

AdaptiveReturn ==
    /\ pc = "adaptive_loop"
    /\ epoch >= call.number
    /\ pc' = "adaptive_done"
    /\ UNCHANGED <<labels, ann, script,
                   value, rankings, rank, already_labeled, training_data,
                   unlabeled_data, validation_data, call, local, ret, raised,
                   epoch, moved>>

NextRep ==
    \/ GetRepresentativeSamples
    \/ GetAdaptiveRepresentativeSamples
    \/ AdaptiveIteration
    \/ AdaptiveIndexError
    \/ AdaptiveReturn

SpecRep == InitRep /\ [][NextRep]_vars

----------------------------------------------------------------------------
(* get_model_outliers *)

NumNeurons == 2
MaxLogit == 3
MaxValid == 2
MaxPool == 2

\* the logits the classifier gives the texts of the model
LogitVectors ==
    {v \in [1..NumNeurons -> 0..MaxLogit] : (v[1] + v[2]) % 2 = 0}

\* s with x put after every entry <= x
RECURSIVE InsertNumber(_, _)
InsertNumber(s, x) ==
    IF s = <<>> THEN <<x>>
    ELSE IF x < Head(s) THEN <<x>> \o s
    ELSE <<Head(s)>> \o InsertNumber(Tail(s), x)

\* validation.sort()
RECURSIVE SortNumbers(_)
SortNumbers(s) ==
    IF s = <<>> THEN <<>>
    ELSE InsertNumber(SortNumbers(SubSeq(s, 1, Len(s) - 1)), s[Len(s)])

\* Steps 1 and 2: one ascending list per neuron of its output on the
\* validation items; no list at all when there is no validation item
ValidationRankings(validation) ==
    IF validation = <<>> THEN <<>>
    ELSE [n \in 1..NumNeurons |->
             SortNumbers([v \in 1..Len(validation) |-> validation[v][n]])]

RECURSIVE SumRanks(_, _, _)
SumRanks(outputs, vrankings, n) ==
    IF n > Len(outputs) THEN <<0, 1>>
    ELSE LET r == get_rank(outputs[n], vrankings[n])
         IN  RAdd(<<r.num, r.den>>, SumRanks(outputs, vrankings, n + 1))

\* the sum of the ranks, not divided by the number of neurons
OutlierScoreSum(outputs, vrankings) ==
    RSub(<<1, 1>>, SumRanks(outputs, vrankings, 1))

\* the average rank itself, not 1 minus it
AverageRank(outputs, vrankings) ==
    LET total == SumRanks(outputs, vrankings, 1)
    IN  <<total[1], total[2] * Len(outputs)>>

\* 1 - (sum(ranks) / len(neuron_outputs))
OutlierScore(outputs, vrankings) ==
    LET total == SumRanks(outputs, vrankings, 1)
    IN  RSub(<<1, 1>>, <<total[1], total[2] * Len(outputs)>>)

\* an item of the slice is scored unless its id is in already_labeled
Skipped(item) == item.id \in already_labeled

ScoreOutlier(item, vrankings) ==
    IF Skipped(item) THEN item
    ELSE [item EXCEPT !.strategy = "logit_rank_outlier",
                      !.score = OutlierScore(item.text, vrankings)]

RECURSIVE Unskipped(_)
Unskipped(s) ==
    IF s = <<>> THEN <<>>
    ELSE IF Skipped(Head(s)) THEN Unskipped(Tail(s))
    ELSE <<Head(s)>> \o Unskipped(Tail(s))

\* One call, given what the shuffle leaves.  validation_rankings[n] of an
\* empty list raises IndexError at the first item that is not skipped.
ModelOutliers(ushuf, validation, number, limit) ==
    LET vrankings == ValidationRankings(validation)
        slice == IF limit = -1 THEN ushuf ELSE SliceTo(ushuf, limit)
    IN  IF vrankings = <<>> /\ Unskipped(slice) # <<>>
        THEN [raised |-> "IndexError", rankings |-> vrankings, caller |-> ushuf,
              outliers |-> <<>>, ret |-> <<>>]
        ELSE LET scored == [i \in 1..Len(slice) |-> ScoreOutlier(slice[i], vrankings)]
                 outliers == SortByScore(Unskipped(scored))
             IN  [raised |-> "none", rankings |-> vrankings,
                  caller |-> scored \o SubSeq(ushuf, Len(scored) + 1, Len(ushuf)),
                  outliers |-> outliers,
                  ret |-> SliceTo(outliers, number)]

OutlierLimits == {-1} \cup (1..(MaxPool - 1)) \cup {DefaultLimit}
OutlierNumbers == 0..MaxPool

\* what shuffle(s) can leave; no shuffle is done when limit == -1
ShuffledUnless(s, limit) ==
    IF limit = -1 THEN {s} ELSE Shuffled(s, 1)

InitOutliers ==
    /\ NoScript
    /\ pc = "idle_outliers"
    /\ already_labeled \in SUBSET (1..MaxLabeled)
    /\ training_data = <<>>
    /\ unlabeled_data \in ItemLists(LogitVectors, MaxPool)
    /\ validation_data \in SeqsUpTo(LogitVectors, MaxValid)
    /\ call = [op |-> "none"]
    /\ local = <<>>
    /\ ret = <<>>
    /\ raised = "none"
    /\ epoch = 0
    /\ moved = <<>>
    /\ value = 0
    /\ rankings = <<>>
    /\ rank = NoRank

GetModelOutliers ==
    /\ pc = "idle_outliers"
    /\ \E number \in OutlierNumbers, limit \in OutlierLimits :
         \E ushuf \in ShuffledUnless(unlabeled_data, limit) :
            LET r == ModelOutliers(ushuf, validation_data, number, limit)
            IN  /\ r.raised = "none"
                /\ call' = [op |-> "outliers", number |-> number,
                            limit |-> limit, input |-> unlabeled_data]
                /\ unlabeled_data' = r.caller
                /\ local' = [rankings |-> r.rankings, outliers |-> r.outliers]
                /\ ret' = r.ret
    /\ pc' = "outliers_done"
    /\ UNCHANGED <<labels, ann, script,
                   value, rankings, rank, already_labeled, training_data,
                   validation_data, raised, epoch, moved>>

GetModelOutliersRaises ==
    /\ pc = "idle_outliers"
    /\ \E number \in OutlierNumbers, limit \in OutlierLimits :
         \E ushuf \in ShuffledUnless(unlabeled_data, limit) :
            LET r == ModelOutliers(ushuf, validation_data, number, limit)
            IN  /\ r.raised # "none"
                /\ call' = [op |-> "outliers", number |-> number,
                            limit |-> limit, input |-> unlabeled_data]
                /\ unlabeled_data' = r.caller
                /\ local' = [rankings |-> r.rankings, outliers |-> r.outliers]
                /\ raised' = r.raised
    /\ pc' = "outliers_raised"
    /\ UNCHANGED <<labels, ann, script,
                   value, rankings, rank, already_labeled, training_data,
                   validation_data, ret, epoch, moved>>

NextOutliers == GetModelOutliers \/ GetModelOutliersRaises

SpecOutliers == InitOutliers /\ [][NextOutliers]_vars

----------------------------------------------------------------------------
(* get_random_items *)

\* for item in unlabeled_data, from entry i on: a labeled item is passed over;
\* any other item is tagged and appended, and only then is the length of
\* random_items compared with number
RECURSIVE RandomItemsFrom(_, _, _, _)
RandomItemsFrom(data, i, random_items, number) ==
    IF i > Len(data) THEN [caller |-> data, ret |-> random_items]
    ELSE IF Skipped(data[i]) THEN RandomItemsFrom(data, i + 1, random_items, number)
    ELSE LET item == [data[i] EXCEPT !.strategy = "random_remaining"]
             tagged == [data EXCEPT ![i] = item]
             appended == Append(random_items, item)
         IN  IF Len(appended) >= number
             THEN [caller |-> tagged, ret |-> appended]
             ELSE RandomItemsFrom(tagged, i + 1, appended, number)

\* One call, given what shuffle(unlabeled_data) leaves
RandomItems(ushuf, number) == RandomItemsFrom(ushuf, 1, <<>>, number)

InitRandom ==
    /\ NoScript
    /\ pc = "idle_random"
    /\ already_labeled \in SUBSET (1..MaxLabeled)
    /\ training_data = <<>>
    /\ unlabeled_data \in ItemLists(FeatureVectors, MaxItems)
    /\ validation_data = <<>>
    /\ call = [op |-> "none"]
    /\ local = <<>>
    /\ ret = <<>>
    /\ raised = "none"
    /\ epoch = 0
    /\ moved = <<>>
    /\ value = 0
    /\ rankings = <<>>
    /\ rank = NoRank

GetRandomItems ==
    /\ pc = "idle_random"
    /\ \E number \in Numbers :
         \E ushuf \in Shuffled(unlabeled_data, 1) :
            LET r == RandomItems(ushuf, number)
            IN  /\ call' = [op |-> "random", number |-> number,
                            input |-> unlabeled_data]
                /\ unlabeled_data' = r.caller
                /\ ret' = r.ret
    /\ pc' = "random_done"
    /\ UNCHANGED <<labels, ann, script,
                   value, rankings, rank, already_labeled, training_data,
                   validation_data, local, raised, epoch, moved>>

NextRandom == GetRandomItems

SpecRandom == InitRandom /\ [][NextRandom]_vars

----------------------------------------------------------------------------
(* The clustering loop of get_cluster_samples.  CosineClusters is a black  *)
(* box here: an epoch reports any moved count.                             *)

MaxEpochs == 4
MaxMoved == 2

\* the loop without its break
NeverConverged(added) == FALSE

\* if added == 0: break
Converged(added) == added = 0

\* cosine_clusters.add_items_to_best_cluster(data): the count it may report
MovedCounts == 0..MaxMoved

InitCluster ==
    /\ NoScript
    /\ pc = "cluster_loop"
    /\ call \in {[op |-> "cluster", max_epochs |-> m] : m \in 0..MaxEpochs}
    /\ epoch = 0
    /\ moved = <<>>
    /\ ret = <<>>
    /\ already_labeled = {}
    /\ training_data = <<>>
    /\ unlabeled_data = <<>>
    /\ validation_data = <<>>
    /\ local = <<>>
    /\ raised = "none"
    /\ value = 0
    /\ rankings = <<>>
    /\ rank = NoRank

\* one pass of for i in range(0, max_epochs)
ClusterEpoch ==
    /\ pc = "cluster_loop"
    /\ epoch < call.max_epochs
    /\ \E added \in MovedCounts :
         /\ moved' = Append(moved, added)
         /\ pc' = IF Converged(added) THEN "cluster_extract" ELSE "cluster_loop"
    /\ epoch' = epoch + 1
    /\ UNCHANGED <<labels, ann, script,
                   value, rankings, rank, already_labeled, training_data,
                   unlabeled_data, validation_data, call, local, ret, raised>>

\* range(0, max_epochs) is exhausted
ClusterLoopEnd ==
    /\ pc = "cluster_loop"
    /\ epoch >= call.max_epochs
    /\ pc' = "cluster_extract"
    /\ UNCHANGED <<labels, ann, script,
                   value, rankings, rank, already_labeled, training_data,
                   unlabeled_data, validation_data, call, local, ret, raised,
                   epoch, moved>>

\* centroids + outliers + randoms
ClusterExtract ==
    /\ pc = "cluster_extract"
    /\ ret' = <<"centroids", "outliers", "randoms">>
    /\ pc' = "cluster_done"
    /\ UNCHANGED <<labels, ann, script,
                   value, rankings, rank, already_labeled, training_data,
                   unlabeled_data, validation_data, call, local, raised,
                   epoch, moved>>

NextCluster == ClusterEpoch \/ ClusterLoopEnd \/ ClusterExtract

SpecCluster == InitCluster /\ [][NextCluster]_vars

----------------------------------------------------------------------------
(* get_annotations: one action per pass of its while loop.  ann.ind is the *)
(* loop variable between passes; ann.prompt and ann.input are the index    *)
(* last prompted (len(data) for the "All done" prompt) and the answer last *)
(* typed; ann.back is the item index at which 2 was typed and no prompt    *)
(* has followed yet; ann.from and ann.to are set in the pass that shows    *)
(* the first prompt after a 2 typed at item ann.from.                      *)

Inputs == {"1", "", "2", "d", "s"}

\* the "go back" that keeps the index where it is
GoBackNowhere(ind) == ind

\* ind-=1
GoBack(ind) == ind - 1

\* if ind < 0: ind = 0
At(ind) == Max(ind, 0)

StartAnnotations ==
    [ind |-> 0, prompt |-> -1, input |-> "", back |-> -1, from |-> -1, to |-> -1]

\* data[ind][3] = default_sampling_strategy, if it is None or "": the item
\* is the same object in every list that holds it
WithDefaultStrategy(s, id) ==
    [k \in 1..Len(s) |->
        IF s[k].id = id /\ s[k].strategy = ""
        THEN [s[k] EXCEPT !.strategy = "random"]
        ELSE s[k]]

\* labels of the rows load_data read: a row has a label exactly when
\* load_data put its id in already_labeled
LoadedLabels(data) ==
    {l \in [Ids -> {"", "0", "1"}] :
        \A i \in Ids : l[i] # "" <=> (i \in already_labeled /\ i <= Len(data))}

InitAnnotations ==
    /\ pc = "annotate"
    /\ already_labeled \in SUBSET (1..MaxLabeled)
    /\ unlabeled_data \in ItemLists({<<0, 0>>}, MaxItems)
    /\ local = unlabeled_data
    /\ labels \in LoadedLabels(unlabeled_data)
    /\ ann = StartAnnotations
    /\ script = [block |-> "none"]
    /\ call = [op |-> "annotations"]
    /\ training_data = <<>>
    /\ validation_data = <<>>
    /\ ret = <<>>
    /\ raised = "none"
    /\ epoch = 0
    /\ moved = <<>>
    /\ value = 0
    /\ rankings = <<>>
    /\ rank = NoRank

\* a pass over an item whose id is in already_labeled: "Skipping seen"
AnnotateSkip ==
    /\ pc = "annotate"
    /\ LET ind == At(ann.ind)
       IN  /\ ind < Len(local)
           /\ Skipped(local[ind + 1])
           /\ ann' = [ann EXCEPT !.ind = ind + 1, !.from = -1, !.to = -1]
    /\ UNCHANGED <<pc, labels, script, value, rankings, rank, already_labeled,
                   training_data, unlabeled_data, validation_data, call,
                   local, ret, raised, epoch, moved>>

\* a pass that prompts the text of an item and reads the answer
AnnotateItem ==
    /\ pc = "annotate"
    /\ LET ind == At(ann.ind)
       IN  /\ ind < Len(local)
           /\ ~Skipped(local[ind + 1])
           /\ \E label \in Inputs :
                LET seen == [ann EXCEPT !.prompt = ind, !.input = label,
                                        !.from = ann.back,
                                        !.to = IF ann.back >= 0 THEN ind ELSE -1,
                                        !.back = -1]
                    id == local[ind + 1].id
                IN  IF label = "2"
                    THEN /\ ann' = [seen EXCEPT !.ind = GoBack(ind), !.back = ind]
                         /\ UNCHANGED <<pc, labels, unlabeled_data, local, ret>>
                    ELSE IF label = "d"
                    THEN /\ ann' = [seen EXCEPT !.ind = ind]
                         /\ UNCHANGED <<pc, labels, unlabeled_data, local, ret>>
                    ELSE IF label = "s"
                    THEN /\ ann' = [seen EXCEPT !.ind = ind]
                         /\ pc' = "annotated"
                         /\ ret' = local
                         /\ UNCHANGED <<labels, unlabeled_data, local>>
                    ELSE /\ ann' = [seen EXCEPT !.ind = ind + 1]
                         /\ labels' = [labels EXCEPT
                                          ![id] = IF label = "1" THEN "1" ELSE "0"]
                         /\ local' = WithDefaultStrategy(local, id)
                         /\ unlabeled_data' = WithDefaultStrategy(unlabeled_data, id)
                         /\ UNCHANGED <<pc, ret>>
    /\ UNCHANGED <<script, value, rankings, rank, already_labeled,
                   training_data, validation_data, call, raised, epoch, moved>>

\* the pass at ind == len(data): the "All done" prompt; any answer but 2
\* takes ind past len(data), which ends the loop, and data is returned
AnnotateLast ==
    /\ pc = "annotate"
    /\ LET ind == At(ann.ind)
       IN  /\ ind = Len(local)
           /\ \E label \in Inputs :
                LET seen == [ann EXCEPT !.prompt = ind, !.input = label,
                                        !.from = ann.back,
                                        !.to = IF ann.back >= 0 THEN ind ELSE -1,
                                        !.back = -1]
                IN  IF label = "2"
                    THEN /\ ann' = [seen EXCEPT !.ind = GoBack(ind)]
                         /\ UNCHANGED <<pc, ret>>
                    ELSE /\ ann' = [seen EXCEPT !.ind = ind + 1]
                         /\ pc' = "annotated"
                         /\ ret' = local
    /\ UNCHANGED <<labels, script, value, rankings, rank, already_labeled,
                   training_data, unlabeled_data, validation_data, call,
                   local, raised, epoch, moved>>

NextAnnotations == AnnotateSkip \/ AnnotateItem \/ AnnotateLast

SpecAnnotations == InitAnnotations /\ [][NextAnnotations]_vars

----------------------------------------------------------------------------
(* The script (<module>, one run).  The rows already in the evaluation,    *)
(* validation and training files are represented by their counts;          *)
(* script.evaluation, script.validation and script.training are the ids of *)
(* the rows the run appends to the files of each set.  unlabeled_data is   *)
(* the global data, local the list given to get_annotations.               *)

minimum_evaluation_items == 1200
minimum_validation_items == 200
minimum_training_items == 100

\* number=5 of the call get_random_items(data, number=5)
SampleNumber == 5

MaxData == 2
MaxNeeded == 2

\* related followed by not_related: the ids of the items labeled "1", then
\* of those labeled "0"; an item with any other label is in neither
RowIds(s) == [i \in 1..Len(s) |-> s[i].id]

AppendedRows(data) ==
    RowIds(SelectSeq(data, LAMBDA item : labels[item.id] = "1"))
        \o RowIds(SelectSeq(data, LAMBDA item : labels[item.id] = "0"))

InitScript ==
    /\ pc = "script_start"
    /\ already_labeled \in SUBSET (1..MaxLabeled)
    /\ unlabeled_data \in ItemLists({<<0, 0>>}, MaxData)
    /\ labels \in LoadedLabels(unlabeled_data)
    /\ \E e \in 0..MaxNeeded, v \in 0..MaxNeeded, t \in -1..MaxNeeded :
          script = [block |-> "start",
                    evaluation_count |-> minimum_evaluation_items - e,
                    validation_count |-> minimum_validation_items - v,
                    training_count |-> minimum_training_items - t,
                    evaluation |-> <<>>, validation |-> <<>>, training |-> <<>>]
    /\ ann = StartAnnotations
    /\ local = <<>>
    /\ call = [op |-> "script"]
    /\ training_data = <<>>
    /\ validation_data = <<>>
    /\ ret = <<>>
    /\ raised = "none"
    /\ epoch = 0
    /\ moved = <<>>
    /\ value = 0
    /\ rankings = <<>>
    /\ rank = NoRank

\* shuffle(data); data = data[:needed]; data = get_annotations(data), up to
\* the first prompt
AnnotateNeeded(block, needed) ==
    /\ \E shuf \in Shuffled(unlabeled_data, 1) :
          /\ unlabeled_data' = SliceTo(shuf, needed)
          /\ local' = SliceTo(shuf, needed)
    /\ ann' = StartAnnotations
    /\ script' = [script EXCEPT !.block = block]
    /\ pc' = "annotate"
    /\ UNCHANGED <<labels, value, rankings, rank, already_labeled,
                   training_data, validation_data, call, ret, raised, epoch,
                   moved>>

EvaluationBlock ==
    /\ pc = "script_start"
    /\ script.evaluation_count < minimum_evaluation_items
    /\ AnnotateNeeded("evaluation",
                      minimum_evaluation_items - script.evaluation_count)

NoEvaluationBlock ==
    /\ pc = "script_start"
    /\ ~(script.evaluation_count < minimum_evaluation_items)
    /\ pc' = "after_evaluation"
    /\ UNCHANGED <<labels, ann, script, value, rankings, rank,
                   already_labeled, training_data, unlabeled_data,
                   validation_data, call, local, ret, raised, epoch, moved>>

AppendEvaluation ==
    /\ pc = "annotated"
    /\ script.block = "evaluation"
    /\ unlabeled_data' = ret
    /\ script' = [script EXCEPT !.evaluation = @ \o AppendedRows(ret)]
    /\ pc' = "after_evaluation"
    /\ UNCHANGED <<labels, ann, value, rankings, rank, already_labeled,
                   training_data, validation_data, call, local, ret, raised,
                   epoch, moved>>

\* line 678 starts a new if statement: this block and those chained to it by
\* elif and else are entered whether or not the evaluation block ran
ValidationBlock ==
    /\ pc = "after_evaluation"
    /\ (script.validation_count < minimum_validation_items)
    /\ AnnotateNeeded("validation",
                      minimum_validation_items - script.validation_count)

AppendValidation ==
    /\ pc = "annotated"
    /\ script.block = "validation"
    /\ unlabeled_data' = ret
    /\ script' = [script EXCEPT !.validation = @ \o AppendedRows(ret)]
    /\ pc' = "after_blocks"
    /\ UNCHANGED <<labels, ann, value, rankings, rank, already_labeled,
                   training_data, validation_data, call, local, ret, raised,
                   epoch, moved>>

TrainingBlock ==
    /\ pc = "after_evaluation"
    /\ ~(script.validation_count < minimum_validation_items)
    /\ (script.training_count < minimum_training_items)
    /\ AnnotateNeeded("training",
                      minimum_training_items - script.training_count)

\* the else block: sampled_data = get_random_items(data, number=5);
\* shuffle(sampled_data); get_annotations(sampled_data), up to the first
\* prompt
SamplingBlock ==
    /\ pc = "after_evaluation"
    /\ ~(script.validation_count < minimum_validation_items)
    /\ ~(script.training_count < minimum_training_items)
    /\ \E ushuf \in Shuffled(unlabeled_data, 1) :
          LET r == RandomItems(ushuf, SampleNumber)
          IN  /\ unlabeled_data' = r.caller
              /\ local' \in Shuffled(r.ret, 1)
    /\ ann' = StartAnnotations
    /\ script' = [script EXCEPT !.block = "sampling"]
    /\ pc' = "annotate"
    /\ UNCHANGED <<labels, value, rankings, rank, already_labeled,
                   training_data, validation_data, call, ret, raised, epoch,
                   moved>>

\* both the training block and the else block append to the training files
AppendTraining ==
    /\ pc = "annotated"
    /\ script.block \in {"training", "sampling"}
    /\ unlabeled_data' = IF script.block = "training" THEN ret ELSE unlabeled_data
    /\ script' = [script EXCEPT !.training = @ \o AppendedRows(ret)]
    /\ pc' = "after_blocks"
    /\ UNCHANGED <<labels, ann, value, rankings, rank, already_labeled,
                   training_data, validation_data, call, local, ret, raised,
                   epoch, moved>>

\* if training_count > minimum_training_items: the training and evaluation
\* files are loaded again (load_data records their ids in already_labeled)
\* and the model is retrained
Retrain ==
    /\ pc = "after_blocks"
    /\ script.training_count > minimum_training_items
    /\ script' = [script EXCEPT
                     !.block = "retrained",
                     !.training_count = @ + Len(script.training),
                     !.evaluation_count = @ + Len(script.evaluation)]
    /\ already_labeled' = already_labeled
                            \cup {script.training[i] : i \in 1..Len(script.training)}
                            \cup {script.evaluation[i] : i \in 1..Len(script.evaluation)}
    /\ pc' = "script_done"
    /\ UNCHANGED <<labels, ann, value, rankings, rank, training_data,
                   unlabeled_data, validation_data, call, local, ret, raised,
                   epoch, moved>>

NoRetrain ==
    /\ pc = "after_blocks"
    /\ ~(script.training_count > minimum_training_items)
    /\ pc' = "script_done"
    /\ UNCHANGED <<labels, ann, script, value, rankings, rank,
                   already_labeled, training_data, unlabeled_data,
                   validation_data, call, local, ret, raised, epoch, moved>>

NextScript ==
    \/ EvaluationBlock
    \/ NoEvaluationBlock
    \/ AppendEvaluation
    \/ ValidationBlock
    \/ AppendValidation
    \/ TrainingBlock
    \/ SamplingBlock
    \/ AppendTraining
    \/ Retrain
    \/ NoRetrain
    \/ NextAnnotations

SpecScript == InitScript /\ [][NextScript]_vars

----------------------------------------------------------------------------
(* Every entry point *)

Init ==
    \/ InitRank
    \/ InitRep
    \/ InitOutliers
    \/ InitRandom
    \/ InitCluster
    \/ InitAnnotations
    \/ InitScript

\* NextScript has the passes of get_annotations in it
Next == NextRank \/ NextRep \/ NextOutliers \/ NextRandom \/ NextCluster \/ NextScript

Spec == Init /\ [][Next]_vars

----------------------------------------------------------------------------
(* Claims about the samplers *)

\* position of the item with this id in a list (0 when absent)
Pos(s, id) ==
    IF id \in IdsOf(s) THEN CHOOSE i \in 1..Len(s) : s[i].id = id ELSE 0

NonIncreasing(s) == \A i \in 1..(Len(s) - 1) : RLe(s[i + 1].score, s[i].score)

DistinctIds(s) == \A i, j \in 1..Len(s) : s[i].id = s[j].id => i = j

\* the feature-wise sum of the texts of a list of items
SumOfTexts(s) == Centroid(Texts(s))

\* C2: for number >= 0 get_representative_samples returns exactly
\* min(number, size of the possibly truncated target set) items, all of the
\* target set, in non-increasing order of score, no target item left out
\* scoring strictly higher than a returned one; every scored target item has
\* strategy "representative" and score = similarity to the target profile
\* minus similarity to the reference profile.
C2_RepresentativeTopK ==
    pc = "rep_done" =>
        LET target == local.target
            size == IF call.limit > 0
                    THEN Min(call.limit, Len(call.input))
                    ELSE Len(call.input)
        IN  /\ Len(target) = size
            /\ DistinctIds(target)
            /\ \A j \in 1..Len(target) :
                   /\ Pos(call.input, target[j].id) # 0
                   /\ call.input[Pos(call.input, target[j].id)].text = target[j].text
                   /\ target[j].strategy = "representative"
                   /\ target[j].score[2] = SimScale
                   /\ target[j].score[1]
                        = cosine_similary(target[j].text, SumOfTexts(target))
                          - cosine_similary(target[j].text, Centroid(local.training))
            /\ Len(ret) = Min(call.number, size)
            /\ DistinctIds(ret)
            /\ \A i \in 1..Len(ret) : \E j \in 1..Len(target) : target[j] = ret[i]
            /\ NonIncreasing(ret)
            /\ \A j \in 1..Len(target) :
                   target[j].id \notin IdsOf(ret) =>
                       \A i \in 1..Len(ret) : RLe(target[j].score, ret[i].score)

C2_Witness ==
    /\ pc = "rep_done"
    /\ call.number = 2
    /\ Len(call.input) = 3
    /\ Len(local.target) = 3
    /\ Len(ret) = 2
    /\ RLt(ret[2].score, ret[1].score)
    /\ \E j \in 1..3 : /\ local.target[j].id \notin IdsOf(ret)
                       /\ RLt(local.target[j].score, ret[2].score)

\* C3: for a target set with unique ids and count <= its size, the adaptive
\* sampler returns count items, none repeated; after each iteration the target
\* set is one item smaller and no longer holds the item selected; with count
\* equal to the size every item is returned once and the target set ends empty.
C3_AdaptiveNoRepeats ==
    (call.op = "adaptive" /\ call.number <= Len(call.input)) =>
        /\ raised = "none"
        /\ Len(ret) = epoch
        /\ Len(unlabeled_data) = Len(call.input) - epoch
        /\ DistinctIds(ret)
        /\ IdsOf(ret) \cap IdsOf(unlabeled_data) = {}
        /\ IdsOf(ret) \cup IdsOf(unlabeled_data) = IdsOf(call.input)
        /\ pc = "adaptive_done" =>
               /\ Len(ret) = call.number
               /\ call.number = Len(call.input) =>
                      /\ unlabeled_data = <<>>
                      /\ IdsOf(ret) = IdsOf(call.input)

C3_Witness ==
    /\ pc = "adaptive_done"
    /\ call.op = "adaptive"
    /\ call.limit = 2
    /\ Len(call.input) = 3
    /\ call.number = 3
    /\ Len(ret) = 3
    /\ unlabeled_data = <<>>

\* the sorted validation outputs of neuron n, worked out from validation_data
Column(n) == [v \in 1..Len(validation_data) |-> validation_data[v][n]]
Occurrences(s, x) == Cardinality({i \in 1..Len(s) : s[i] = x})
IsSortedColumn(s, n) ==
    /\ Len(s) = Len(validation_data)
    /\ IsSorted(s)
    /\ \A x \in 0..MaxLogit : Occurrences(s, x) = Occurrences(Column(n), x)

RankOf(item, n) ==
    LET r == get_rank(item.text[n], local.rankings[n]) IN <<r.num, r.den>>

\* C4: for a non-empty validation set and number >= 0 get_model_outliers
\* returns at most number items in non-increasing score order; every returned
\* item has strategy "logit_rank_outlier" and score 1 minus the mean over the
\* neurons of get_rank(activation, that neuron's sorted validation
\* activations), and the score lies in [0, 1].
C4_ModelOutliers ==
    (call.op = "outliers" /\ validation_data # <<>>) =>
        /\ pc = "outliers_done"
        /\ raised = "none"
        /\ \A n \in 1..NumNeurons : IsSortedColumn(local.rankings[n], n)
        /\ Len(ret) <= call.number
        /\ NonIncreasing(ret)
        /\ \A i \in 1..Len(ret) :
               /\ ret[i].strategy = "logit_rank_outlier"
               /\ Pos(call.input, ret[i].id) # 0
               /\ call.input[Pos(call.input, ret[i].id)].text = ret[i].text
               /\ LET sum == RAdd(RankOf(ret[i], 1), RankOf(ret[i], 2))
                  IN  REq(ret[i].score, RSub(<<1, 1>>, <<sum[1], 2 * sum[2]>>))
               /\ ret[i].score[2] > 0
               /\ RLe(<<0, 1>>, ret[i].score)
               /\ RLe(ret[i].score, <<1, 1>>)

C4_Witness ==
    /\ pc = "outliers_done"
    /\ Len(validation_data) = 2
    /\ call.number = 2
    /\ Len(ret) = 2
    /\ RLt(ret[2].score, ret[1].score)
    /\ RLt(<<0, 1>>, ret[2].score)
    /\ RLt(ret[1].score, <<1, 1>>)
    /\ ~REq(RankOf(ret[1], 1), RankOf(ret[1], 2))

\* C5: the clustering loop runs at most max_epochs epochs and stops right
\* after the first epoch whose moved count is 0; no epoch follows a zero-move
\* epoch, and the extraction happens only after the loop has ended.
C5_ClusterLoopStops ==
    call.op = "cluster" =>
        /\ Len(moved) = epoch
        /\ epoch <= call.max_epochs
        /\ \A k \in 1..(Len(moved) - 1) : moved[k] # 0
        /\ (moved # <<>> /\ moved[Len(moved)] = 0) => pc # "cluster_loop"
        /\ pc \in {"cluster_extract", "cluster_done"} =>
               \/ epoch = call.max_epochs
               \/ (moved # <<>> /\ moved[Len(moved)] = 0)
        /\ ret # <<>> => pc = "cluster_done"

C5_Witness ==
    /\ pc = "cluster_done"
    /\ call.max_epochs = 4
    /\ moved = <<2, 1, 0>>
    /\ ret # <<>>

\* C6: in every sampling pass an item whose id is in already_labeled is never
\* among the returned items.
C6_LabeledNeverReturned ==
    call.op \in {"representative", "adaptive", "outliers"} =>
        \A i \in 1..Len(ret) : ret[i].id \notin already_labeled

SortedCall == pc \in {"rep_done", "outliers_done"}

EqualScoresKeepOrderOf(s) ==
    \A i, j \in 1..Len(ret) :
        (i < j /\ REq(ret[i].score, ret[j].score)) =>
            Pos(s, ret[i].id) < Pos(s, ret[j].id)

\* C7 as stated: in the list returned by get_representative_samples and by
\* get_model_outliers two items of equal score keep the relative order of the
\* list the caller passed, for every limit.
C7_TiesKeepInputOrder ==
    SortedCall => EqualScoresKeepOrderOf(call.input)

\* whether the call shuffled its list before scoring
ShuffledFirst ==
    \/ call.op = "representative" /\ call.limit > 0
    \/ call.op = "outliers" /\ call.limit # -1

\* C7 amended: two returned items of equal score keep the relative order the
\* call's shuffle left them in; that is the order of the caller's list only
\* when the call does not shuffle (limit <= 0, and limit == -1 for
\* get_model_outliers).
C7_TiesKeepShuffledOrder ==
    SortedCall =>
        /\ ShuffledFirst => EqualScoresKeepOrderOf(unlabeled_data)
        /\ ~ShuffledFirst => EqualScoresKeepOrderOf(call.input)

C7_Witness ==
    /\ pc = "rep_done"
    /\ call.limit > 0
    /\ Len(ret) = 3
    /\ REq(ret[1].score, ret[2].score)
    /\ REq(ret[2].score, ret[3].score)
    /\ Pos(call.input, ret[1].id) > Pos(call.input, ret[2].id)
    /\ Pos(unlabeled_data, ret[1].id) < Pos(unlabeled_data, ret[2].id)

\* C9: empty inputs never raise: get_representative_samples with an empty
\* reference or target set, get_adaptive_representative_samples with count
\* above the number of target items, and get_rank and get_model_outliers with
\* an empty validation ranking all return normally.
C9_EmptyInputsNeverRaise ==
    /\ (pc = "rank_done" /\ rankings = <<>>) => rank.raised = "none"
    /\ call.op = "representative" => raised = "none"
    /\ (call.op = "adaptive" /\ call.number > Len(call.input)) => raised = "none"
    /\ (call.op = "outliers" /\ validation_data = <<>>) => raised = "none"

\* an item's activation against the validation activations, on every neuron
AboveAll(item) ==
    \A n \in 1..NumNeurons : \A v \in 1..Len(validation_data) :
        item.text[n] > validation_data[v][n]
BelowAll(item) ==
    \A n \in 1..NumNeurons : \A v \in 1..Len(validation_data) :
        item.text[n] < validation_data[v][n]
InsideAll(item) ==
    \A n \in 1..NumNeurons :
        /\ \E v \in 1..Len(validation_data) : validation_data[v][n] < item.text[n]
        /\ \E v \in 1..Len(validation_data) : item.text[n] < validation_data[v][n]

Scored == local.outliers

\* C10 as stated: an item above all validation activations on every neuron,
\* and likewise one below them all, scores at least as high as any item
\* strictly inside the validation range.
C10_ExtremesScoreHigher ==
    (pc = "outliers_done" /\ validation_data # <<>>) =>
        \A i, j \in 1..Len(Scored) :
            ((AboveAll(Scored[i]) \/ BelowAll(Scored[i])) /\ InsideAll(Scored[j]))
                => RLe(Scored[j].score, Scored[i].score)

\* C10 amended: only the low extreme scores high.  An item below all
\* validation activations on every neuron scores 1, at least as high as any
\* item; an item above them all scores 0, strictly lower than any item strictly
\* inside the validation range, whose score is strictly between 0 and 1.
C10_LowExtremeScoresHigher ==
    (pc = "outliers_done" /\ validation_data # <<>>) =>
        \A i, j \in 1..Len(Scored) :
            /\ BelowAll(Scored[i]) =>
                   /\ REq(Scored[i].score, <<1, 1>>)
                   /\ RLe(Scored[j].score, Scored[i].score)
            /\ AboveAll(Scored[i]) =>
                   /\ REq(Scored[i].score, <<0, 1>>)
                   /\ RLe(Scored[i].score, Scored[j].score)
            /\ InsideAll(Scored[j]) =>
                   /\ RLt(<<0, 1>>, Scored[j].score)
                   /\ RLt(Scored[j].score, <<1, 1>>)
            /\ (AboveAll(Scored[i]) /\ InsideAll(Scored[j])) =>
                   RLt(Scored[i].score, Scored[j].score)

C10_Witness ==
    /\ pc = "outliers_done"
    /\ Len(validation_data) = 2
    /\ Len(Scored) = 2
    /\ AboveAll(Scored[2])
    /\ InsideAll(Scored[1])
    /\ RLt(Scored[2].score, Scored[1].score)

----------------------------------------------------------------------------
(* Claims about get_random_items *)

\* the items of s that are not labeled
UnlabeledIn(s) == {i \in 1..Len(s) : ~Skipped(s[i])}

\* C13: for every number >= 0, get_random_items returns exactly
\* min(number, count of input items whose id is not in already_labeled) items,
\* hence never more than number; every returned item has strategy
\* "random_remaining" and no item is returned twice.
C13_RandomItemsCount ==
    (pc = "random_done" /\ call.op = "random") =>
        /\ Len(ret) = Min(call.number, Cardinality(UnlabeledIn(call.input)))
        /\ Len(ret) <= call.number
        /\ \A i \in 1..Len(ret) : ret[i].strategy = "random_remaining"
        /\ DistinctIds(ret)

----------------------------------------------------------------------------
(* Claims about get_annotations *)

C12_WitnessSkipped ==
    /\ pc = "annotate"
    /\ ann.from = 1
    /\ ann.to = 1
    /\ Skipped(local[1])

----------------------------------------------------------------------------
(* Claims about the script *)

Appended(rows) == {rows[i] : i \in 1..Len(rows)}

\* C11: within one run of the script the evaluation, validation and training
\* sets stay disjoint: no item id appended to the evaluation data files is
\* also appended to the validation data files or the training data files in
\* that run, whatever the initial evaluation, validation and training counts.
C11_SetsStayDisjoint ==
    (call.op = "script") =>
        /\ Appended(script.evaluation) \cap Appended(script.validation) = {}
        /\ Appended(script.evaluation) \cap Appended(script.training) = {}
        /\ Appended(script.validation) \cap Appended(script.training) = {}

====
